---- MODULE Spec2Model ----
(***************************************************************************)
(* Model of the SecureChat front-end: the room directory (Dashboard), the  *)
(* room session (Chat) and the hosted backend tables they read and write.  *)
(* Text is modelled as sequences of one-character strings so that trim()   *)
(* and toUpperCase() are computed, not assumed.                            *)
(***************************************************************************)
EXTENDS Integers, Sequences, FiniteSets, TLC

\* ------------------------------------------------------------------ bounds
MaxRooms == 2          \* rows of chat_rooms (one deactivated row exists initially)
MaxMessages == 2       \* rows sendMessage adds to messages
MaxOverLimit == 2      \* stored history: up to HistoryLimit + MaxOverLimit rows
MaxCalls == 2          \* loadUserVerificationData calls running at once, per admin
MaxHandlers == 2       \* channel handlers running at once, per user

\* --------------------------------------------------------- program constants
DefaultMaxParticipants == 50   \* parseInt(value) || 50
HistoryLimit == 100            \* .limit(100) of loadMessages

\* ------------------------------------------------------------------- text
Users == {"A", "B", "C"}
Chars == {"a", "A", " "}
Whitespace == {" "}

RECURSIVE trimStart(_)
trimStart(s) ==
    IF s # <<>> /\ Head(s) \in Whitespace THEN trimStart(Tail(s)) ELSE s

RECURSIVE trimEnd(_)
trimEnd(s) ==
    IF s # <<>> /\ s[Len(s)] \in Whitespace THEN trimEnd(SubSeq(s, 1, Len(s) - 1)) ELSE s

\* String.prototype.trim
trimNone(s) == s
trim(s) == trimEnd(trimStart(s))

\* String.prototype.toUpperCase
toUpperCaseNone(s) == s
toUpperCase(s) == [i \in DOMAIN s |-> IF s[i] = "a" THEN "A" ELSE s[i]]

\* JavaScript truthiness of a string: the empty string is falsy
Truthy(s) == s # <<>>

\* SHA-256 hex digest of the password: a tagged value, never the plaintext
hashPasswordPlain(password) == password
hashPassword(password) == <<"sha256">> \o password

\* generate_room_code (database function): a fresh upper-case code per row
generate_room_code(n) == [i \in 1..n |-> "A"]

\* the raw value of the max-participants field, after parseInt(value) || 50
NaN == 0
ParseMaxParticipants(raw) == IF raw = NaN \/ raw = 0 THEN DefaultMaxParticipants ELSE raw

\* ------------------------------------------------------------------ state
VARIABLES
    session,            \* users holding an auth session (supabase.auth)
    profiles,           \* users that have a row in profiles
    chat_rooms,         \* table chat_rooms, in insertion order
    room_participants,  \* table room_participants: a set of rows
    messages,           \* table messages: a set of rows
    channels,           \* realtime channels subscribed and not removed
    inflight,           \* change events sent to a channel, their handler not yet run
    route,              \* per user: the page the browser shows
    join,               \* per user: the running Dashboard.joinRoom call
    chat,               \* per user: the state of the Chat component
    event,              \* the toast / navigation produced by the latest handler step
    handlers,           \* per user: the channel handlers that run, in the order they started
    delivered,          \* per user: the new-message events the open page received, in order
    user_roles,         \* table user_roles: a set of rows
    verification_images,  \* table verification_images: a set of rows
    verification_audio,   \* table verification_audio: a set of rows
    location_tracking,    \* table location_tracking: a set of rows
    admin,              \* per user: the state of the AdminPanel component
    dashboard           \* per user: the state of the Dashboard component

backend == <<session, profiles, chat_rooms, room_participants, messages>>
\* what the Admin Monitor reads, and its component
monitor == <<user_roles, verification_images, verification_audio, location_tracking, admin>>
vars == <<session, profiles, chat_rooms, room_participants, messages, channels,
          inflight, route, join, chat, event, handlers, delivered, monitor, dashboard>>

NoRow == <<>>
NoEvent ==
    [op |-> "none", user |-> "none", args |-> <<>>, resp |-> "none", toast |-> "none", nav |-> "none"]
\* op: the handler step; args: what the user typed; resp: the backend's answer to the
\* step's request ("none" when it made no request); toast, nav: what the step showed
Ev(op, u, args, resp, toast, nav) ==
    [op |-> op, user |-> u, args |-> args, resp |-> resp, toast |-> toast, nav |-> nav]
Resp(ok) == IF ok THEN "ok" ELSE "error"

\* the steps whose failure the code writes to the console with console.error: the
\* list query of loadRooms, the upsert of joinRoom, loadMessages, loadParticipants
\* and loadUsers
ConsoleErrorNone(e) == FALSE
ConsoleError(e) ==
    \/ e.op = "loadRooms" /\ ~e.args[1]
    \/ /\ e.resp = "error"
       /\ e.op \in {"initializeChat:joinRoom", "initializeChat:loadMessages",
                    "initializeChat:loadParticipants", "onParticipantChange", "loadUsers"}

Page(p, code) == [page |-> p, roomCode |-> code]
IdleJoin == [pc |-> "idle", room |-> NoRow, code |-> <<>>, password |-> <<>>]

\* useState initial values of the Chat component; pc is the place initializeChat has reached
NewChat(pc) ==
    [pc |-> pc, room |-> NoRow, currentUser |-> FALSE, loading |-> TRUE,
     messages |-> <<>>, participants |-> {}, newMessage |-> <<>>, data |-> <<>>]

\* useState initial values of the AdminPanel component; pc is the place
\* checkAdminAccess has reached, calls the running loadUserVerificationData calls
NewAdmin(pc) ==
    [pc |-> pc, isAdmin |-> FALSE, loading |-> TRUE, users |-> {}, selectedUser |-> "null",
     verificationData |-> [images |-> <<>>, audio |-> <<>>, locations |-> <<>>],
     calls |-> <<>>]

\* useState initial values of the Dashboard component; pc: "loadRooms" while a
\* loadRooms call waits for its answer
NewDashboard(pc) == [pc |-> pc, rooms |-> <<>>]

\* ---------------------------------------------------------------- backend
\* select ... from chat_rooms where room_code = code and is_active
RoomsByCode(code) == {i \in DOMAIN chat_rooms : chat_rooms[i].room_code = code}
ActiveRoomsByCode(code) ==
    {i \in DOMAIN chat_rooms : chat_rooms[i].room_code = code /\ chat_rooms[i].is_active}

\* .single(): data only when exactly one row matches
Single(rows) == IF Cardinality(rows) = 1 THEN <<chat_rooms[CHOOSE i \in rows : TRUE]>> ELSE NoRow

\* select count from room_participants where room_id = r and is_active
ActiveCount(parts, roomId) ==
    Cardinality({p \in parts : p.room_id = roomId /\ p.is_active})

\* count response of a select with { count: 'exact' }: null when the request failed
CountResponse(ok, n) == [isNull |-> ~ok, n |-> IF ok THEN n ELSE 0]

\* insert into room_participants: a new row under a fresh id
InsertParticipant(parts, row) ==
    parts \cup {[id |-> Cardinality(parts) + 1, room_id |-> row.room_id,
                 user_id |-> row.user_id, is_active |-> row.is_active]}

\* upsert into room_participants: the row of the (room, user) pair is updated when
\* there is one, inserted otherwise
UpsertParticipant(parts, row) ==
    IF \E p \in parts : p.room_id = row.room_id /\ p.user_id = row.user_id
    THEN {IF p.room_id = row.room_id /\ p.user_id = row.user_id
          THEN [p EXCEPT !.is_active = row.is_active] ELSE p : p \in parts}
    ELSE InsertParticipant(parts, row)

InactiveRoom ==
    [id |-> 1, name |-> <<"a">>, room_code |-> generate_room_code(1), created_by |-> "A",
     is_active |-> FALSE, is_password_protected |-> FALSE, password_hash |-> <<>>,
     max_participants |-> 2]

\* ------------------------------------------------------------------- Init
InitClients ==
    /\ route = [u \in Users |-> Page("auth", <<>>)]
    /\ join = [u \in Users |-> IdleJoin]
    /\ chat = [u \in Users |-> NewChat("unmounted")]
    /\ channels = {}
    /\ inflight = {}
    /\ handlers = [u \in Users |-> <<>>]
    /\ delivered = [u \in Users |-> <<>>]
    /\ admin = [u \in Users |-> NewAdmin("unmounted")]
    /\ dashboard = [u \in Users |-> NewDashboard("unmounted")]
    /\ event = NoEvent

\* -------------------------------------------------------------- Dashboard
\* initializeDashboard: mount of "/" (redirects to /auth without a session)
OpenDashboard(u) ==
    /\ route[u].page = "auth"
    /\ IF u \in session
       THEN /\ route' = [route EXCEPT ![u] = Page("dashboard", <<>>)]
            /\ dashboard' = [dashboard EXCEPT ![u] = NewDashboard("loadRooms")]
            /\ event' = Ev("initializeDashboard", u, <<>>, "ok", "none", "none")
       ELSE /\ route' = [route EXCEPT ![u] = Page("auth", <<>>)]
            /\ dashboard' = [dashboard EXCEPT ![u] = NewDashboard("unmounted")]
            /\ event' = Ev("initializeDashboard", u, <<>>, "ok", "none", "/auth")
    /\ UNCHANGED <<backend, channels, inflight, join, chat, handlers, delivered, monitor>>

\* the row createRoom sends to chat_rooms (roomData), completed by the database
NewRoomRow(u, name, password, maxParticipants) ==
    [id |-> Len(chat_rooms) + 1,
     name |-> trim(name),
     room_code |-> generate_room_code(Len(chat_rooms) + 1),
     created_by |-> u,
     is_active |-> TRUE,
     is_password_protected |-> Truthy(password),
     password_hash |-> IF Truthy(password) THEN hashPassword(password) ELSE <<>>,
     max_participants |-> maxParticipants]

\* createRoom
CreateRoom(u, name, password, raw, ok) ==
    /\ route[u].page = "dashboard"
    /\ Len(chat_rooms) < MaxRooms
    /\ IF ~Truthy(trim(name))
       THEN /\ event' = Ev("createRoom", u, <<name, password>>, "none", "Room name is required", "none")
            /\ UNCHANGED <<chat_rooms, dashboard>>
       ELSE IF ok
       THEN /\ chat_rooms' = Append(chat_rooms, NewRoomRow(u, name, password, ParseMaxParticipants(raw)))
            /\ dashboard' = [dashboard EXCEPT ![u].pc = "loadRooms"]
            /\ event' = Ev("createRoom", u, <<name, password>>, "ok", "Room Created", "none")
       ELSE /\ event' = Ev("createRoom", u, <<name, password>>, "error", "Failed to create room", "none")
            /\ UNCHANGED <<chat_rooms, dashboard>>
    /\ UNCHANGED <<session, profiles, room_participants, messages, channels, inflight, route, join, chat, handlers, delivered, monitor>>

\* if (!joinRoomCode.trim())
JoinCodeMissingNoTrim(code) == ~Truthy(code)
JoinCodeMissing(code) == ~Truthy(trim(code))

\* the password gate of joinRoom: any non-empty password passes
PasswordGateVerifiesHash(room, password) ==
    room.is_password_protected /\ hashPassword(password) # room.password_hash
PasswordGateRejects(room, password) ==
    room.is_password_protected /\ ~Truthy(password)

\* joinRoom, up to the answer of the room lookup and the password gate
JoinRoomLookup(u, code, password, ok) ==
    /\ route[u].page = "dashboard"
    /\ join[u].pc = "idle"
    /\ LET found == IF ok THEN Single(ActiveRoomsByCode(toUpperCase(code))) ELSE NoRow
           args == <<code, password>>
       IN  IF JoinCodeMissing(code)
           THEN /\ event' = Ev("joinRoom:lookup", u, args, "none", "Room code is required", "none")
                /\ UNCHANGED join
           ELSE IF found = NoRow
           THEN /\ event' = Ev("joinRoom:lookup", u, args, Resp(ok), "Room not found", "none")
                /\ UNCHANGED join
           ELSE IF PasswordGateRejects(found[1], password)
           THEN /\ event' = Ev("joinRoom:lookup", u, args, Resp(ok), "Password required", "none")
                /\ UNCHANGED join
           ELSE /\ join' = [join EXCEPT ![u] =
                        [pc |-> "count", room |-> found, code |-> code, password |-> password]]
                /\ event' = Ev("joinRoom:lookup", u, args, Resp(ok), "none", "none")
    /\ UNCHANGED <<backend, channels, inflight, route, chat, handlers, delivered, monitor>>
    /\ UNCHANGED dashboard

\* if (count && count >= room.max_participants)
IsRoomFullStrict(count, max_participants) ==
    ~count.isNull /\ count.n # 0 /\ count.n > max_participants
IsRoomFull(count, max_participants) ==
    ~count.isNull /\ count.n # 0 /\ count.n >= max_participants

\* joinRoom, from the answer of the participant count on
JoinRoomCount(u, ok) ==
    /\ route[u].page = "dashboard"
    /\ join[u].pc = "count"
    /\ LET room == join[u].room[1]
           count == CountResponse(ok, ActiveCount(room_participants, room.id))
       IN  IF IsRoomFull(count, room.max_participants)
           THEN /\ event' = Ev("joinRoom:count", u, <<join[u].code, join[u].password>>, Resp(ok), "Room full", "none")
                /\ UNCHANGED <<route, chat, dashboard>>
           ELSE /\ event' = Ev("joinRoom:count", u, <<join[u].code, join[u].password>>, Resp(ok), "none", "/chat")
                /\ route' = [route EXCEPT ![u] = Page("chat", room.room_code)]
                /\ dashboard' = [dashboard EXCEPT ![u] = NewDashboard("unmounted")]
                /\ chat' = [chat EXCEPT ![u] = NewChat("getSession")]
    /\ join' = [join EXCEPT ![u] = IdleJoin]
    /\ UNCHANGED <<backend, channels, inflight, handlers, delivered, monitor>>

\* select ... from chat_rooms where is_active, order by created_at descending
ActiveRoomsNewestFirst ==
    LET active == SelectSeq(chat_rooms, LAMBDA r : r.is_active)
    IN  [i \in DOMAIN active |-> active[Len(active) + 1 - i]]

\* { ...room, participant_count: count || 0 }
WithCount(room, count) ==
    [id |-> room.id, name |-> room.name, room_code |-> room.room_code,
     is_password_protected |-> room.is_password_protected,
     max_participants |-> room.max_participants,
     participant_count |-> IF count.isNull THEN 0 ELSE count.n]

\* loadRooms: the room list and, per room, its count of active members; the counts of
\* the rooms in failed are not answered. A failed list query is logged to the console
LoadRooms(u, ok, failed) ==
    /\ route[u].page = "dashboard"
    /\ dashboard[u].pc = "loadRooms"
    /\ IF ok
       THEN LET data == ActiveRoomsNewestFirst
            IN  /\ failed \subseteq DOMAIN data
                /\ dashboard' = [dashboard EXCEPT
                       ![u].pc = "ready",
                       ![u].rooms = [i \in DOMAIN data |->
                           WithCount(data[i], CountResponse(i \notin failed,
                                         ActiveCount(room_participants, data[i].id)))]]
                /\ event' = Ev("loadRooms", u, <<TRUE, failed = {}>>, Resp(failed = {}), "none", "none")
       ELSE /\ failed = {}
            /\ dashboard' = [dashboard EXCEPT ![u].pc = "ready"]
            /\ event' = Ev("loadRooms", u, <<FALSE, TRUE>>, "error", "none", "none")
    /\ UNCHANGED <<backend, channels, inflight, route, join, chat, handlers, delivered, monitor>>

\* disabled={(room.participant_count || 0) >= room.max_participants}
JoinChatDisabled(room) == room.participant_count >= room.max_participants

\* the Join Chat button of the i-th room card: navigate to the room's chat page
JoinChat(u, i) ==
    /\ route[u].page = "dashboard"
    /\ join[u].pc = "idle"
    /\ i \in DOMAIN dashboard[u].rooms
    /\ ~JoinChatDisabled(dashboard[u].rooms[i])
    /\ route' = [route EXCEPT ![u] = Page("chat", dashboard[u].rooms[i].room_code)]
    /\ chat' = [chat EXCEPT ![u] = NewChat("getSession")]
    /\ dashboard' = [dashboard EXCEPT ![u] = NewDashboard("unmounted")]
    /\ delivered' = [delivered EXCEPT ![u] = <<>>]
    /\ event' = Ev("joinChat", u, <<dashboard[u].rooms[i].room_code>>, "none", "none", "/chat")
    /\ UNCHANGED <<backend, channels, inflight, join, handlers, monitor>>

\* ------------------------------------------------------------------- Chat
Anonymous == "Anonymous"

\* select ... from messages where room_id = r
MessagesOfRoom(roomId) == {m \in messages : m.room_id = roomId}

RECURSIVE OrderByCreatedAtDescending(_)
OrderByCreatedAtDescending(rows) ==
    IF rows = {} THEN <<>>
    ELSE LET first == CHOOSE m \in rows : \A o \in rows : m.created_at >= o.created_at
         IN  <<first>> \o OrderByCreatedAtDescending(rows \ {first})

RECURSIVE OrderByCreatedAt(_)
\* .order('created_at', { ascending: true })
OrderByCreatedAt(rows) ==
    IF rows = {} THEN <<>>
    ELSE LET first == CHOOSE m \in rows : \A o \in rows : m.created_at <= o.created_at
         IN  <<first>> \o OrderByCreatedAt(rows \ {first})

\* .limit(n)
Limit(rows, n) == SubSeq(rows, 1, IF Len(rows) < n THEN Len(rows) ELSE n)

\* the query of loadMessages
HistoryQuery(roomId) == Limit(OrderByCreatedAt(MessagesOfRoom(roomId)), HistoryLimit)

\* { ...message, profiles: profile || { display_name: 'Anonymous' } }
WithProfile(m, found) ==
    [id |-> m.id, content |-> m.content, user_id |-> m.user_id, created_at |-> m.created_at,
     display_name |-> IF found THEN m.user_id ELSE Anonymous]

\* Promise.all over the rows: lookups of the rows in failed return no profile
Enrich(data, failed) ==
    [i \in DOMAIN data |-> WithProfile(data[i], data[i].user_id \in profiles /\ i \notin failed)]

\* select user_id ... from room_participants where room_id = r and is_active
RosterQuery(roomId) ==
    {p.user_id : p \in {q \in room_participants : q.room_id = roomId /\ q.is_active}}

\* the write of Chat.joinRoom
JoinRoomWriteInsert(parts, roomId, userId) ==
    InsertParticipant(parts, [room_id |-> roomId, user_id |-> userId, is_active |-> TRUE])
JoinRoomWrite(parts, roomId, userId) ==
    UpsertParticipant(parts, [room_id |-> roomId, user_id |-> userId, is_active |-> TRUE])

\* the channels setupRealtimeSubscriptions subscribes; mounted: the component that
\* subscribed is still on the page
NewChannels(u, roomId) ==
    {[user |-> u, kind |-> "messages", room_id |-> roomId, mounted |-> TRUE],
     [user |-> u, kind |-> "participants", room_id |-> roomId, mounted |-> TRUE]}

\* the effect's cleanup on unmount: its body is empty, no channel is removed
Cleanup(chs, u) == {IF c.user = u THEN [c EXCEPT !.mounted = FALSE] ELSE c : c \in chs}

\* postgres_changes: the events a change of a table row sends to the channels
\* subscribed to the table with the row's room as filter
Notify(kind, roomId, id) ==
    {[channel |-> c, id |-> id] : c \in {d \in channels : d.kind = kind /\ d.room_id = roomId}}

\* a change of the table is committed for the room: what the handlers that already
\* run have read, or will read with the request they have issued, is no longer the
\* latest (latest: no change was committed since the handler started)
Superseded(h, kind, roomId) ==
    IF h.channel.kind = kind /\ h.channel.room_id = roomId THEN [h EXCEPT !.latest = FALSE] ELSE h
SupersededHandlers(kind, roomId) ==
    [u \in Users |-> [i \in DOMAIN handlers[u] |-> Superseded(handlers[u][i], kind, roomId)]]

\* the component that subscribed the channel of e has left the page
Unmounted(e, u) ==
    IF e.channel.user = u THEN [e EXCEPT !.channel = [e.channel EXCEPT !.mounted = FALSE]] ELSE e

\* the sequence s without its i-th element
RemoveAt(s, i) == SubSeq(s, 1, i - 1) \o SubSeq(s, i + 1, Len(s))

\* the Chat page is opened by its URL
OpenChat(u, code) ==
    /\ route[u].page \in {"auth", "dashboard"}
    /\ join[u].pc = "idle"
    /\ route' = [route EXCEPT ![u] = Page("chat", code)]
    /\ chat' = [chat EXCEPT ![u] = NewChat("getSession")]
    /\ dashboard' = [dashboard EXCEPT ![u] = NewDashboard("unmounted")]
    /\ delivered' = [delivered EXCEPT ![u] = <<>>]
    /\ event' = Ev("openChat", u, <<code>>, "none", "none", "/chat")
    /\ UNCHANGED <<backend, channels, inflight, join, handlers, monitor>>

\* the roomCode parameter of the route changes while the Chat page is shown (a jump
\* in the browser history): the component stays mounted with its state, the effect
\* runs again for the new code and its cleanup releases nothing
ChangeRoomCode(u, code) ==
    /\ route[u].page = "chat"
    /\ chat[u].pc = "active"
    /\ code # route[u].roomCode
    /\ route' = [route EXCEPT ![u] = Page("chat", code)]
    /\ chat' = [chat EXCEPT ![u].pc = "getSession"]
    /\ event' = Ev("changeRoomCode", u, <<code>>, "none", "none", "/chat")
    /\ UNCHANGED <<backend, channels, inflight, join, handlers, delivered, monitor>>
    /\ UNCHANGED dashboard

\* initializeChat: getSession, the profile of the user, setCurrentUser
ChatGetSession(u) ==
    /\ route[u].page = "chat"
    /\ chat[u].pc = "getSession"
    /\ IF u \notin session
       THEN /\ route' = [route EXCEPT ![u] = Page("auth", <<>>)]
            /\ chat' = [chat EXCEPT ![u] = NewChat("unmounted")]
            /\ channels' = Cleanup(channels, u)
            /\ inflight' = {Unmounted(e, u) : e \in inflight}
            /\ handlers' = [handlers EXCEPT ![u] = <<>>]
            /\ event' = Ev("initializeChat:session", u, <<>>, "ok", "none", "/auth")
       ELSE /\ chat' = [chat EXCEPT ![u].pc = "getRoom", ![u].currentUser = TRUE]
            /\ event' = Ev("initializeChat:session", u, <<>>, "ok", "none", "none")
            /\ UNCHANGED <<route, channels, inflight, handlers>>
    /\ UNCHANGED <<backend, join, delivered, monitor>>
    /\ UNCHANGED dashboard

\* initializeChat: the room of the route's code
ChatGetRoom(u, ok) ==
    /\ route[u].page = "chat"
    /\ chat[u].pc = "getRoom"
    /\ LET roomData == IF ok THEN Single(ActiveRoomsByCode(route[u].roomCode)) ELSE NoRow
       IN  IF roomData = NoRow
           THEN /\ route' = [route EXCEPT ![u] = Page("dashboard", <<>>)]
                /\ chat' = [chat EXCEPT ![u] = NewChat("unmounted")]
                /\ dashboard' = [dashboard EXCEPT ![u] = NewDashboard("loadRooms")]
                /\ channels' = Cleanup(channels, u)
                /\ inflight' = {Unmounted(e, u) : e \in inflight}
                /\ handlers' = [handlers EXCEPT ![u] = <<>>]
                /\ event' = Ev("initializeChat:room", u, <<>>, Resp(ok), "Room Not Found", "/")
           ELSE /\ chat' = [chat EXCEPT ![u].pc = "joinRoom", ![u].room = roomData]
                /\ event' = Ev("initializeChat:room", u, <<>>, Resp(ok), "none", "none")
                /\ UNCHANGED <<route, channels, inflight, handlers, dashboard>>
    /\ UNCHANGED <<backend, join, delivered, monitor>>

\* initializeChat: joinRoom(roomData.id, session.user.id); an error is only logged
ChatJoinRoom(u, ok) ==
    /\ route[u].page = "chat"
    /\ chat[u].pc = "joinRoom"
    /\ room_participants' =
          IF ok THEN JoinRoomWrite(room_participants, chat[u].room[1].id, u)
          ELSE room_participants
    /\ inflight' =
          IF ok THEN inflight \cup Notify("participants", chat[u].room[1].id, 0)
          ELSE inflight
    /\ handlers' =
          IF ok THEN SupersededHandlers("participants", chat[u].room[1].id) ELSE handlers
    /\ chat' = [chat EXCEPT ![u].pc = "loadMessages"]
    /\ event' = Ev("initializeChat:joinRoom", u, <<>>, Resp(ok), "none", "none")
    /\ UNCHANGED <<session, profiles, chat_rooms, messages, channels, route, join,
                   delivered, monitor>>
    /\ UNCHANGED dashboard

\* loadMessages: the answer of the history query; an error is only logged
ChatLoadMessages(u, ok) ==
    /\ route[u].page = "chat"
    /\ chat[u].pc = "loadMessages"
    /\ IF ok
       THEN chat' = [chat EXCEPT ![u].pc = "enrich",
                                 ![u].data = HistoryQuery(chat[u].room[1].id)]
       ELSE chat' = [chat EXCEPT ![u].pc = "loadParticipants"]
    /\ event' = Ev("initializeChat:loadMessages", u, <<>>, Resp(ok), "none", "none")
    /\ UNCHANGED <<backend, channels, inflight, route, join, handlers, delivered, monitor>>
    /\ UNCHANGED dashboard

\* loadMessages: the profile lookups have answered, setMessages
ChatEnrich(u, failed) ==
    /\ route[u].page = "chat"
    /\ chat[u].pc = "enrich"
    /\ chat' = [chat EXCEPT ![u].pc = "loadParticipants",
                            ![u].messages = Enrich(chat[u].data, failed),
                            ![u].data = <<>>]
    /\ event' = Ev("initializeChat:setMessages", u, <<>>, IF failed = {} THEN "ok" ELSE "error", "none", "none")
    /\ UNCHANGED <<backend, channels, inflight, route, join, handlers, delivered, monitor>>
    /\ UNCHANGED dashboard

\* loadParticipants (an error is only logged), then setupRealtimeSubscriptions
\* and setLoading(false)
ChatLoadParticipants(u, ok) ==
    /\ route[u].page = "chat"
    /\ chat[u].pc = "loadParticipants"
    /\ chat' = [chat EXCEPT ![u].pc = "active",
                            ![u].loading = FALSE,
                            ![u].participants =
                                IF ok THEN RosterQuery(chat[u].room[1].id) ELSE @]
    /\ channels' = channels \cup NewChannels(u, chat[u].room[1].id)
    /\ event' = Ev("initializeChat:loadParticipants", u, <<>>, Resp(ok), "none", "none")
    /\ UNCHANGED <<backend, inflight, route, join, handlers, delivered, monitor>>
    /\ UNCHANGED dashboard

\* a Leave Room that deactivates the membership rows of the user
LeaveRoomDeactivating(u) ==
    /\ route[u].page = "chat"
    /\ ~chat[u].loading
    /\ route' = [route EXCEPT ![u] = Page("dashboard", <<>>)]
    /\ chat' = [chat EXCEPT ![u] = NewChat("unmounted")]
    /\ dashboard' = [dashboard EXCEPT ![u] = NewDashboard("loadRooms")]
    /\ channels' = Cleanup(channels, u)
    /\ inflight' = {Unmounted(e, u) : e \in inflight}
    /\ handlers' = [handlers EXCEPT ![u] = <<>>]
    /\ room_participants' =
          {IF p.user_id = u THEN [p EXCEPT !.is_active = FALSE] ELSE p : p \in room_participants}
    /\ event' = Ev("leaveRoom", u, <<>>, "none", "none", "/")
    /\ UNCHANGED <<session, profiles, chat_rooms, messages, join, delivered, monitor>>

\* the Leave Room button: navigate('/'); the effect's cleanup releases nothing. The
\* handlers that run belong to the component that goes: they can change nothing any
\* more and are dropped
LeaveRoom(u) ==
    /\ route[u].page = "chat"
    /\ ~chat[u].loading
    /\ route' = [route EXCEPT ![u] = Page("dashboard", <<>>)]
    /\ chat' = [chat EXCEPT ![u] = NewChat("unmounted")]
    /\ dashboard' = [dashboard EXCEPT ![u] = NewDashboard("loadRooms")]
    /\ channels' = Cleanup(channels, u)
    /\ inflight' = {Unmounted(e, u) : e \in inflight}
    /\ handlers' = [handlers EXCEPT ![u] = <<>>]
    /\ event' = Ev("leaveRoom", u, <<>>, "none", "none", "/")
    /\ UNCHANGED <<backend, join, delivered, monitor>>

\* if (!newMessage.trim() || !room || !currentUser) return
SendGuardNoTrim(text, room, currentUser) ==
    Truthy(text) /\ room # NoRow /\ currentUser
SendGuard(text, room, currentUser) ==
    Truthy(trim(text)) /\ room # NoRow /\ currentUser

\* the row sendMessage inserts, completed by the database
NewMessageRow(u, roomId, text) ==
    [id |-> Cardinality(messages) + 1, room_id |-> roomId, user_id |-> u,
     content |-> trim(text), message_type |-> "text",
     created_at |-> Cardinality(messages) + 1]

\* sendMessage with an optimistic insert of the sent message into the transcript
SendMessageOptimistic(u, text, ok) ==
    /\ route[u].page = "chat"
    /\ ~chat[u].loading
    /\ Cardinality(messages) < MaxMessages
    /\ IF ~SendGuard(text, chat[u].room, chat[u].currentUser)
       THEN /\ chat' = [chat EXCEPT ![u].newMessage = text]
            /\ event' = Ev("sendMessage", u, <<text>>, "none", "none", "none")
            /\ UNCHANGED <<messages, inflight, handlers>>
       ELSE IF ok
       THEN /\ messages' = messages \cup {NewMessageRow(u, chat[u].room[1].id, text)}
            /\ inflight' = inflight \cup
                   Notify("messages", chat[u].room[1].id, Cardinality(messages) + 1)
            /\ handlers' = SupersededHandlers("messages", chat[u].room[1].id)
            /\ chat' = [chat EXCEPT ![u].newMessage = <<>>,
                                    ![u].messages = Append(@, WithProfile(
                                        NewMessageRow(u, chat[u].room[1].id, text), TRUE))]
            /\ event' = Ev("sendMessage", u, <<text>>, "ok", "none", "none")
       ELSE /\ chat' = [chat EXCEPT ![u].newMessage = text]
            /\ event' = Ev("sendMessage", u, <<text>>, "error", "Failed to send message", "none")
            /\ UNCHANGED <<messages, inflight, handlers>>
    /\ UNCHANGED <<session, profiles, chat_rooms, room_participants, channels, route, join,
                   delivered, monitor>>
    /\ UNCHANGED dashboard

\* sendMessage clearing the input before the answer of the insert is looked at
SendMessageClearing(u, text, ok) ==
    /\ route[u].page = "chat"
    /\ ~chat[u].loading
    /\ Cardinality(messages) < MaxMessages
    /\ IF ~SendGuard(text, chat[u].room, chat[u].currentUser)
       THEN /\ chat' = [chat EXCEPT ![u].newMessage = text]
            /\ event' = Ev("sendMessage", u, <<text>>, "none", "none", "none")
            /\ UNCHANGED <<messages, inflight, handlers>>
       ELSE IF ok
       THEN /\ messages' = messages \cup {NewMessageRow(u, chat[u].room[1].id, text)}
            /\ inflight' = inflight \cup
                   Notify("messages", chat[u].room[1].id, Cardinality(messages) + 1)
            /\ handlers' = SupersededHandlers("messages", chat[u].room[1].id)
            /\ chat' = [chat EXCEPT ![u].newMessage = <<>>]
            /\ event' = Ev("sendMessage", u, <<text>>, "ok", "none", "none")
       ELSE /\ chat' = [chat EXCEPT ![u].newMessage = <<>>]
            /\ event' = Ev("sendMessage", u, <<text>>, "error", "Failed to send message", "none")
            /\ UNCHANGED <<messages, inflight, handlers>>
    /\ UNCHANGED <<session, profiles, chat_rooms, room_participants, channels, route, join,
                   delivered, monitor>>
    /\ UNCHANGED dashboard

\* sendMessage, with text typed into the input
SendMessage(u, text, ok) ==
    /\ route[u].page = "chat"
    /\ ~chat[u].loading
    /\ Cardinality(messages) < MaxMessages
    /\ IF ~SendGuard(text, chat[u].room, chat[u].currentUser)
       THEN /\ chat' = [chat EXCEPT ![u].newMessage = text]
            /\ event' = Ev("sendMessage", u, <<text>>, "none", "none", "none")
            /\ UNCHANGED <<messages, inflight, handlers>>
       ELSE IF ok
       THEN /\ messages' = messages \cup {NewMessageRow(u, chat[u].room[1].id, text)}
            /\ inflight' = inflight \cup
                   Notify("messages", chat[u].room[1].id, Cardinality(messages) + 1)
            /\ handlers' = SupersededHandlers("messages", chat[u].room[1].id)
            /\ chat' = [chat EXCEPT ![u].newMessage = <<>>]
            /\ event' = Ev("sendMessage", u, <<text>>, "ok", "none", "none")
       ELSE /\ chat' = [chat EXCEPT ![u].newMessage = text]
            /\ event' = Ev("sendMessage", u, <<text>>, "error", "Failed to send message", "none")
            /\ UNCHANGED <<messages, inflight, handlers>>
    /\ UNCHANGED <<session, profiles, chat_rooms, room_participants, channels, route, join,
                   delivered, monitor>>
    /\ UNCHANGED dashboard

\* a change event reaches the client and the handler of its channel starts; the
\* handler of the participants channel calls loadParticipants(roomId), whose query the
\* backend answers from the table as it is. A handler of a component that is no
\* longer mounted changes nothing: it is not followed
Deliver(e) ==
    /\ e \in inflight
    /\ e.channel.mounted => Len(handlers[e.channel.user]) < MaxHandlers
    /\ inflight' = inflight \ {e}
    /\ LET u == e.channel.user
           call == [channel |-> e.channel, id |-> e.id, latest |-> TRUE,
                    data |-> IF e.channel.kind = "participants"
                             THEN RosterQuery(e.channel.room_id) ELSE {}]
       IN  /\ handlers' = IF e.channel.mounted
                          THEN [handlers EXCEPT ![u] = Append(@, call)]
                          ELSE handlers
           /\ delivered' =
                 IF e.channel.kind = "messages" /\ e.channel.mounted
                 THEN [delivered EXCEPT ![u] = Append(@, e.id)]
                 ELSE delivered
           /\ event' = Ev("deliver", u, <<e.channel.kind, e.channel.mounted>>, "none", "none", "none")
    /\ UNCHANGED <<backend, channels, route, join, chat, monitor>>
    /\ UNCHANGED dashboard

\* the handler of the messages channel: the row and its author's profile are fetched
\* again, then setMessages(prev => [...prev, message]); a state update of a component
\* that is no longer mounted changes nothing
OnMessageInsert(u, i, okMessage, okProfile) ==
    /\ i \in DOMAIN handlers[u]
    /\ handlers[u][i].channel.kind = "messages"
    /\ handlers' = [handlers EXCEPT ![u] = RemoveAt(@, i)]
    /\ LET h == handlers[u][i]
           rows == IF okMessage THEN {m \in messages : m.id = h.id} ELSE {}
       IN  /\ IF rows # {} /\ h.channel.mounted
              THEN chat' = [chat EXCEPT ![u].messages =
                       Append(@, WithProfile(CHOOSE m \in rows : TRUE,
                                   okProfile /\ (CHOOSE m \in rows : TRUE).user_id \in profiles))]
              ELSE UNCHANGED chat
           /\ event' = Ev("onMessageInsert", u, <<h.id>>, Resp(okMessage /\ okProfile), "none", "none")
    /\ UNCHANGED <<backend, channels, inflight, route, join, delivered, monitor>>
    /\ UNCHANGED dashboard

\* a handler of the participants channel that reloads nothing
OnParticipantChangeNoReload(u, i, ok) ==
    /\ i \in DOMAIN handlers[u]
    /\ handlers[u][i].channel.kind = "participants"
    /\ handlers' = [handlers EXCEPT ![u] = RemoveAt(@, i)]
    /\ event' = Ev("onParticipantChange", u,
                   <<handlers[u][i].latest, handlers[u][i].channel.room_id>>, Resp(ok), "none", "none")
    /\ UNCHANGED <<backend, channels, inflight, route, join, chat, delivered, monitor>>
    /\ UNCHANGED dashboard

\* the handler of the participants channel: the answer of loadParticipants(roomId)
\* arrives; an error is only logged
OnParticipantChange(u, i, ok) ==
    /\ i \in DOMAIN handlers[u]
    /\ handlers[u][i].channel.kind = "participants"
    /\ handlers' = [handlers EXCEPT ![u] = RemoveAt(@, i)]
    /\ LET h == handlers[u][i]
       IN  /\ IF ok /\ h.channel.mounted
              THEN chat' = [chat EXCEPT ![u].participants = h.data]
              ELSE UNCHANGED chat
           /\ event' = Ev("onParticipantChange", u, <<h.latest, h.channel.room_id>>, Resp(ok), "none", "none")
    /\ UNCHANGED <<backend, channels, inflight, route, join, delivered, monitor>>
    /\ UNCHANGED dashboard

\* ------------------------------------------------------------- AdminPanel
ImageLimit == 20       \* .limit(20) of the verification_images query
AudioLimit == 20       \* .limit(20) of the verification_audio query
LocationLimit == 50    \* .limit(50) of the location_tracking query

\* a response { data } of a select: data is null when the request failed
DataResponse(ok, rows) == [isNull |-> ~ok, rows |-> IF ok THEN rows ELSE <<>>]
\* data || []
OrEmpty(resp) == IF resp.isNull THEN <<>> ELSE resp.rows

\* what the component returns: the spinner while loading, null without the admin
\* flag, the panel otherwise
Render(a) ==
    IF a.pc = "unmounted" THEN "unmounted"
    ELSE IF a.loading THEN "loading" ELSE IF ~a.isAdmin THEN "null" ELSE "panel"

\* select role from user_roles where user_id = u, .single()
RoleQuery(u) ==
    LET rows == {r \in user_roles : r.user_id = u}
    IN  IF Cardinality(rows) = 1 THEN <<CHOOSE r \in rows : TRUE>> ELSE NoRow

\* a check that accepts every user with a role row
HasAnyRole(userRole) == userRole # NoRow
\* userRole?.role !== 'admin', negated
IsAdminRole(userRole) == userRole # NoRow /\ userRole[1].role = "admin"

\* the users of loadUsers: one per profile, with the placeholder email
UsersWithEmail == {[id |-> p, email |-> <<"user_", p, "@example.com">>] : p \in profiles}

RECURSIVE OrderByCapturedAt(_)
\* .order('captured_at', { ascending: false })
OrderByCapturedAt(rows) ==
    IF rows = {} THEN <<>>
    ELSE LET first == CHOOSE r \in rows : \A o \in rows : r.captured_at >= o.captured_at
         IN  <<first>> \o OrderByCapturedAt(rows \ {first})

RECURSIVE OrderByRecordedAt(_)
\* .order('recorded_at', { ascending: false })
OrderByRecordedAt(rows) ==
    IF rows = {} THEN <<>>
    ELSE LET first == CHOOSE r \in rows : \A o \in rows : r.recorded_at >= o.recorded_at
         IN  <<first>> \o OrderByRecordedAt(rows \ {first})

\* .eq('user_id', userId)
OfAnyUser(rows, userId) == rows
OfUser(rows, userId) == {r \in rows : r.user_id = userId}

\* the three queries of loadUserVerificationData
ImagesQuery(userId) == Limit(OrderByCapturedAt(OfUser(verification_images, userId)), ImageLimit)
AudioQuery(userId) == Limit(OrderByRecordedAt(OfUser(verification_audio, userId)), AudioLimit)
LocationsQuery(userId) ==
    Limit(OrderByRecordedAt(OfUser(location_tracking, userId)), LocationLimit)

\* the admin page is opened
OpenAdmin(u) ==
    /\ route[u].page \in {"auth", "dashboard"}
    /\ join[u].pc = "idle"
    /\ route' = [route EXCEPT ![u] = Page("admin", <<>>)]
    /\ dashboard' = [dashboard EXCEPT ![u] = NewDashboard("unmounted")]
    /\ admin' = [admin EXCEPT ![u] = NewAdmin("getSession")]
    /\ event' = Ev("openAdmin", u, <<>>, "none", "none", "/admin")
    /\ UNCHANGED <<backend, channels, inflight, join, chat, handlers, delivered,
                   user_roles, verification_images, verification_audio, location_tracking>>

\* checkAdminAccess: getSession; without a session navigate('/auth')
CheckAdminSession(u) ==
    /\ route[u].page = "admin"
    /\ admin[u].pc = "getSession"
    /\ IF u \notin session
       THEN /\ route' = [route EXCEPT ![u] = Page("auth", <<>>)]
            /\ admin' = [admin EXCEPT ![u] = NewAdmin("unmounted")]
            /\ event' = Ev("checkAdminAccess:session", u, <<>>, "ok", "none", "/auth")
       ELSE /\ admin' = [admin EXCEPT ![u].pc = "getRole"]
            /\ event' = Ev("checkAdminAccess:session", u, <<>>, "ok", "none", "none")
            /\ UNCHANGED route
    /\ UNCHANGED <<backend, channels, inflight, join, chat, handlers, delivered,
                   user_roles, verification_images, verification_audio, location_tracking>>
    /\ UNCHANGED dashboard

\* checkAdminAccess: the answer of the role lookup; setIsAdmin(true) for the admin
\* role, the toast and navigate('/') otherwise
CheckAdminRole(u, ok) ==
    /\ route[u].page = "admin"
    /\ admin[u].pc = "getRole"
    /\ LET userRole == IF ok THEN RoleQuery(u) ELSE NoRow
       IN  IF ~IsAdminRole(userRole)
           THEN /\ route' = [route EXCEPT ![u] = Page("dashboard", <<>>)]
                /\ admin' = [admin EXCEPT ![u] = NewAdmin("unmounted")]
                /\ dashboard' = [dashboard EXCEPT ![u] = NewDashboard("loadRooms")]
                /\ event' = Ev("checkAdminAccess:role", u, <<>>, Resp(ok), "Access Denied", "/")
           ELSE /\ admin' = [admin EXCEPT ![u].pc = "loadUsers", ![u].isAdmin = TRUE]
                /\ event' = Ev("checkAdminAccess:role", u, <<>>, Resp(ok), "none", "none")
                /\ UNCHANGED <<route, dashboard>>
    /\ UNCHANGED <<backend, channels, inflight, join, chat, handlers, delivered,
                   user_roles, verification_images, verification_audio, location_tracking>>

\* loadUsers, then setLoading(false) of checkAdminAccess
LoadUsers(u, ok) ==
    /\ route[u].page = "admin"
    /\ admin[u].pc = "loadUsers"
    /\ IF ok
       THEN /\ admin' = [admin EXCEPT ![u].pc = "ready", ![u].loading = FALSE,
                                      ![u].users = UsersWithEmail]
            /\ event' = Ev("loadUsers", u, <<>>, "ok", "none", "none")
       ELSE /\ admin' = [admin EXCEPT ![u].pc = "ready", ![u].loading = FALSE]
            /\ event' = Ev("loadUsers", u, <<>>, "error", "Failed to load users", "none")
    /\ UNCHANGED <<backend, channels, inflight, route, join, chat, handlers, delivered,
                   user_roles, verification_images, verification_audio, location_tracking>>
    /\ UNCHANGED dashboard

\* handleUserSelect: setSelectedUser(userId), loadUserVerificationData(userId)
HandleUserSelect(u, userId) ==
    /\ route[u].page = "admin"
    /\ Render(admin[u]) = "panel"
    /\ userId \in {x.id : x \in admin[u].users}
    /\ Len(admin[u].calls) < MaxCalls
    /\ admin' = [admin EXCEPT ![u].selectedUser = userId,
                              ![u].calls = Append(@, [userId |-> userId, pc |-> "images",
                                                      images |-> DataResponse(FALSE, <<>>),
                                                      audio |-> DataResponse(FALSE, <<>>)])]
    /\ event' = Ev("handleUserSelect", u, <<userId>>, "none", "none", "none")
    /\ UNCHANGED <<backend, channels, inflight, route, join, chat, handlers, delivered,
                   user_roles, verification_images, verification_audio, location_tracking>>
    /\ UNCHANGED dashboard

\* loadUserVerificationData: the i-th running call receives the answer of the query it
\* waits for; after the third answer setVerificationData({ images: images || [], ... })
LoadUserVerificationData(u, i, ok) ==
    /\ route[u].page = "admin"
    /\ i \in DOMAIN admin[u].calls
    /\ LET c == admin[u].calls[i]
       IN  IF c.pc = "images"
           THEN /\ admin' = [admin EXCEPT ![u].calls[i] =
                       [c EXCEPT !.pc = "audio",
                                 !.images = DataResponse(ok, ImagesQuery(c.userId))]]
                /\ event' = Ev("loadUserVerificationData:images", u, <<c.userId>>, Resp(ok), "none", "none")
           ELSE IF c.pc = "audio"
           THEN /\ admin' = [admin EXCEPT ![u].calls[i] =
                       [c EXCEPT !.pc = "locations",
                                 !.audio = DataResponse(ok, AudioQuery(c.userId))]]
                /\ event' = Ev("loadUserVerificationData:audio", u, <<c.userId>>, Resp(ok), "none", "none")
           ELSE /\ admin' = [admin EXCEPT
                       ![u].verificationData =
                           [images |-> OrEmpty(c.images),
                            audio |-> OrEmpty(c.audio),
                            locations |-> OrEmpty(DataResponse(ok, LocationsQuery(c.userId)))],
                       ![u].calls = RemoveAt(@, i)]
                /\ event' = Ev("loadUserVerificationData:set", u,
                               <<c.userId, ~c.images.isNull, ~c.audio.isNull, ok>>,
                               Resp(~c.images.isNull /\ ~c.audio.isNull /\ ok), "none", "none")
    /\ UNCHANGED <<backend, channels, inflight, route, join, chat, handlers, delivered,
                   user_roles, verification_images, verification_audio, location_tracking>>
    /\ UNCHANGED dashboard

\* the back button of the panel: navigate('/')
AdminBack(u) ==
    /\ route[u].page = "admin"
    /\ Render(admin[u]) = "panel"
    /\ route' = [route EXCEPT ![u] = Page("dashboard", <<>>)]
    /\ admin' = [admin EXCEPT ![u] = NewAdmin("unmounted")]
    /\ dashboard' = [dashboard EXCEPT ![u] = NewDashboard("loadRooms")]
    /\ event' = Ev("adminBack", u, <<>>, "none", "none", "/")
    /\ UNCHANGED <<backend, channels, inflight, join, chat, handlers, delivered,
                   user_roles, verification_images, verification_audio, location_tracking>>

\* the specifications of the chat workflow leave the monitor's tables empty
InitMonitor ==
    /\ user_roles = {}
    /\ verification_images = {}
    /\ verification_audio = {}
    /\ location_tracking = {}

\* ------------------------------------------------------- the join workflow
\* Specification SpecGate: user C works the join dialog with every input, creates
\* rooms and enters them.
NameInputs == {<<>>, <<" ">>, <<"a">>}
PasswordInputs == {<<>>, <<"a">>}
JoinPasswordInputs == {<<>>, <<"a">>, <<"A">>}
MaxParticipantsInputs == {NaN, -1, 1, 2}
\* what is typed into the join-code field: nothing, blanks, the code of a row of
\* chat_rooms (present or yet to be created), in lower case, in mixed case, padded
CodePool == {generate_room_code(i) : i \in 1..MaxRooms}
toLowerCase(s) == [i \in DOMAIN s |-> IF s[i] = "A" THEN "a" ELSE s[i]]
JoinCodeInputs ==
    {<<>>, <<" ">>} \cup CodePool \cup {toLowerCase(c) : c \in CodePool}
        \cup {<<"a">> \o Tail(c) : c \in CodePool} \cup {<<" ">> \o c : c \in CodePool}

InitGate ==
    /\ session = Users
    /\ profiles = Users
    /\ chat_rooms = <<InactiveRoom>>
    /\ room_participants = {}
    /\ messages = {}
    /\ InitMonitor
    /\ InitClients

\* which of the profile lookups of loadMessages fail: none, the first, the last, all
EnrichFailures(data) ==
    {failed \in {{}, {1}, {Len(data)}, DOMAIN data} : failed \subseteq DOMAIN data}

ChatInitialize(u) ==
    \/ ChatGetSession(u)
    \/ \E ok \in BOOLEAN : ChatGetRoom(u, ok)
    \/ \E ok \in BOOLEAN : ChatJoinRoom(u, ok)
    \/ \E ok \in BOOLEAN : ChatLoadMessages(u, ok)
    \/ \E failed \in EnrichFailures(chat[u].data) : ChatEnrich(u, failed)
    \/ \E ok \in BOOLEAN : ChatLoadParticipants(u, ok)

NextGate ==
    \/ OpenDashboard("C")
    \/ \E name \in NameInputs, password \in PasswordInputs,
          raw \in MaxParticipantsInputs, ok \in BOOLEAN :
          CreateRoom("C", name, password, raw, ok)
    \/ \E code \in JoinCodeInputs, password \in JoinPasswordInputs, ok \in BOOLEAN :
          JoinRoomLookup("C", code, password, ok)
    \/ \E ok \in BOOLEAN : JoinRoomCount("C", ok)
    \/ ChatInitialize("C")
    \/ LeaveRoom("C")

SpecGate == InitGate /\ [][NextGate]_vars

\* Specification SpecJoin: users A, B and C enter the room "Design Sync" (capacity 2,
\* no password) through the join dialog, leave and come back, in any interleaving.
DesignSync ==
    [id |-> 2, name |-> <<"a">>, room_code |-> generate_room_code(2), created_by |-> "A",
     is_active |-> TRUE, is_password_protected |-> FALSE, password_hash |-> <<>>,
     max_participants |-> 2]

InitJoin ==
    /\ session = Users
    /\ profiles = Users
    /\ chat_rooms = <<InactiveRoom, DesignSync>>
    /\ room_participants = {}
    /\ messages = {}
    /\ InitMonitor
    /\ InitClients

NextJoin ==
    \/ \E u \in Users : OpenDashboard(u)
    \/ \E u \in Users, ok \in BOOLEAN : JoinRoomLookup(u, DesignSync.room_code, <<>>, ok)
    \/ \E u \in Users, ok \in BOOLEAN : JoinRoomCount(u, ok)
    \/ \E u \in Users : ChatInitialize(u)
    \/ \E u \in Users : LeaveRoom(u)

SpecJoin == InitJoin /\ [][NextJoin]_vars

\* Specification SpecSession: user A (signed in) and user C (signed out) open the chat
\* page of a room by its URL; A sends messages, receives the change events and leaves.
MessageInputs == {<<>>, <<" ">>, <<"a">>, <<" ", "a", " ">>}

InitSession ==
    /\ session = {"A", "B"}
    /\ profiles \in {{}, {"A"}}
    /\ chat_rooms = <<InactiveRoom, DesignSync>>
    /\ room_participants = {}
    /\ messages = {}
    /\ InitMonitor
    /\ InitClients

NextSession ==
    \/ \E u \in {"A", "C"}, i \in DOMAIN chat_rooms : OpenChat(u, chat_rooms[i].room_code)
    \/ \E u \in {"A", "C"} : ChatInitialize(u)
    \/ LeaveRoom("A")
    \/ \E text \in MessageInputs, ok \in BOOLEAN : SendMessage("A", text, ok)
    \/ \E e \in inflight : Deliver(e)
    \/ \E i \in DOMAIN handlers["A"], okMessage \in BOOLEAN, okProfile \in BOOLEAN :
          OnMessageInsert("A", i, okMessage, okProfile)

SpecSession == InitSession /\ [][NextSession]_vars

\* Specification SpecHistory: user A opens the chat page of a room that already holds
\* a history of n messages written by A, B and C, n up to HistoryLimit + MaxOverLimit.
\* Row ids are arbitrary (uuids): here they run against the creation times.
HistoryAuthor(k) == IF k % 3 = 0 THEN "A" ELSE IF k % 3 = 1 THEN "B" ELSE "C"
HistoryRows(n) ==
    {[id |-> n + 1 - k, room_id |-> DesignSync.id, user_id |-> HistoryAuthor(k),
      content |-> <<"a">>, message_type |-> "text", created_at |-> k] : k \in 1..n}
        \cup {[id |-> n + 1, room_id |-> InactiveRoom.id, user_id |-> "A",
               content |-> <<"a">>, message_type |-> "text", created_at |-> 0]}
HistorySizes ==
    (0..MaxOverLimit) \cup ((HistoryLimit - 1)..(HistoryLimit + MaxOverLimit))

InitHistory ==
    /\ session = {"A"}
    /\ profiles \in {{}, {"A"}, {"A", "B"}, Users}
    /\ chat_rooms = <<InactiveRoom, DesignSync>>
    /\ room_participants = {}
    /\ \E n \in HistorySizes : messages = HistoryRows(n)
    /\ InitMonitor
    /\ InitClients

NextHistory ==
    \/ OpenChat("A", DesignSync.room_code)
    \/ ChatInitialize("A")
    \/ LeaveRoom("A")

SpecHistory == InitHistory /\ [][NextHistory]_vars

\* Specification SpecRoster: A, B and C open the chat page of the room "Design Sync"
\* by its URL; A leaves and comes back, and the change events of room_participants
\* sent to A's channels are followed through their handlers.
InitRoster ==
    /\ session = Users
    /\ profiles = Users
    /\ chat_rooms = <<InactiveRoom, DesignSync>>
    /\ room_participants = {}
    /\ messages = {}
    /\ InitMonitor
    /\ InitClients

NextRoster ==
    \/ \E u \in Users : OpenChat(u, DesignSync.room_code)
    \/ \E u \in Users : ChatInitialize(u)
    \/ LeaveRoom("A")
    \/ \E e \in inflight : e.channel.user = "A" /\ Deliver(e)
    \/ \E i \in DOMAIN handlers["A"], ok \in BOOLEAN : OnParticipantChange("A", i, ok)

SpecRoster == InitRoster /\ [][NextRoster]_vars

\* Specification SpecSwitch: A opens the chat page of "Design Sync", of which B is a
\* member already, and moves between "Design Sync" and "Standup" without leaving the
\* page, sending messages; every request is answered, and the change events are
\* followed through their handlers.
Standup ==
    [id |-> 3, name |-> <<"a">>, room_code |-> generate_room_code(3), created_by |-> "B",
     is_active |-> TRUE, is_password_protected |-> FALSE, password_hash |-> <<>>,
     max_participants |-> 2]

InitSwitch ==
    /\ session = Users
    /\ profiles = Users
    /\ chat_rooms = <<InactiveRoom, DesignSync, Standup>>
    /\ room_participants = JoinRoomWrite({}, DesignSync.id, "B")
    /\ messages = {}
    /\ InitMonitor
    /\ InitClients

\* initializeChat with every request answered
ChatInitializeAnswered(u) ==
    \/ ChatGetSession(u)
    \/ ChatGetRoom(u, TRUE)
    \/ ChatJoinRoom(u, TRUE)
    \/ ChatLoadMessages(u, TRUE)
    \/ ChatEnrich(u, {})
    \/ ChatLoadParticipants(u, TRUE)

NextSwitch ==
    \/ OpenChat("A", DesignSync.room_code)
    \/ \E room \in {DesignSync, Standup} : ChangeRoomCode("A", room.room_code)
    \/ ChatInitializeAnswered("A")
    \/ SendMessage("A", <<"a">>, TRUE)
    \/ \E e \in inflight : Deliver(e)
    \/ \E i \in DOMAIN handlers["A"] : OnMessageInsert("A", i, TRUE, TRUE)
    \/ \E i \in DOMAIN handlers["A"] : OnParticipantChange("A", i, TRUE)

SpecSwitch == InitSwitch /\ [][NextSwitch]_vars

\* Specification SpecRace: A and B open the chat page of "Design Sync" by its URL, in
\* any interleaving; B sends messages; every request is answered and every change
\* event is followed through its handler.
InitRace ==
    /\ session = Users
    /\ profiles = Users
    /\ chat_rooms = <<InactiveRoom, DesignSync>>
    /\ room_participants = {}
    /\ messages = {}
    /\ InitMonitor
    /\ InitClients

NextRace ==
    \/ \E u \in {"A", "B"} : OpenChat(u, DesignSync.room_code)
    \/ \E u \in {"A", "B"} : ChatInitializeAnswered(u)
    \/ SendMessage("B", <<"a">>, TRUE)
    \/ \E e \in inflight : Deliver(e)
    \/ \E u \in {"A", "B"}, i \in 1..MaxHandlers : OnMessageInsert(u, i, TRUE, TRUE)
    \/ \E u \in {"A", "B"}, i \in 1..MaxHandlers : OnParticipantChange(u, i, TRUE)

SpecRace == InitRace /\ [][NextRace]_vars

\* Specification SpecAdmin: A, B (signed in) and C (signed out) open the admin page;
\* who passes selects users and loads their capture records. B has 0 or more than
\* ImageLimit images, 5 audio records and 3 locations.
RoleRows ==
    {[user_id |-> "A", role |-> "admin"], [user_id |-> "A", role |-> "user"],
     [user_id |-> "B", role |-> "user"]}
\* the contents of user_roles: empty; A is admin; B has another role; A has two roles
RoleTables ==
    {{}, {[user_id |-> "A", role |-> "admin"]},
     {[user_id |-> "A", role |-> "admin"], [user_id |-> "B", role |-> "user"]}, RoleRows}
ImageRows(userId, n) == {[id |-> k, user_id |-> userId, captured_at |-> k] : k \in 1..n}
RecordRows(userId, n) == {[id |-> k, user_id |-> userId, recorded_at |-> k] : k \in 1..n}

InitAdmin ==
    /\ session = {"A", "B"}
    /\ profiles = Users
    /\ chat_rooms = <<InactiveRoom>>
    /\ room_participants = {}
    /\ messages = {}
    /\ user_roles \in RoleTables
    /\ \E n \in {0, ImageLimit + 1} : verification_images = ImageRows("B", n) \cup ImageRows("C", 2)
    /\ verification_audio = RecordRows("B", 5) \cup RecordRows("C", 1)
    /\ location_tracking = RecordRows("B", 3) \cup RecordRows("A", 1)
    /\ InitClients

NextAdmin ==
    \/ \E u \in Users : OpenAdmin(u)
    \/ \E u \in Users : CheckAdminSession(u)
    \/ \E u \in Users, ok \in BOOLEAN : CheckAdminRole(u, ok)
    \/ \E u \in Users, ok \in BOOLEAN : LoadUsers(u, ok)
    \/ \E u \in Users, userId \in {"B", "C"} : HandleUserSelect(u, userId)
    \/ \E u \in Users, i \in 1..MaxCalls, ok \in BOOLEAN : LoadUserVerificationData(u, i, ok)
    \/ \E u \in Users : AdminBack(u)

SpecAdmin == InitAdmin /\ [][NextAdmin]_vars

\* Specification SpecDirectory: A, who is the admin, works the directory: loads the
\* room list, enters "Design Sync" and the password-protected "Boardroom" by the room
\* card, by the join dialog without typing a password, or by the URL, leaves, and
\* opens the Admin Monitor to load the capture records of B; B enters "Design Sync"
\* by its URL, and the change events sent to A's channels are followed.
Boardroom ==
    [id |-> 3, name |-> <<"a">>, room_code |-> generate_room_code(3), created_by |-> "B",
     is_active |-> TRUE, is_password_protected |-> TRUE,
     password_hash |-> hashPassword(<<"a">>), max_participants |-> 2]

InitDirectory ==
    /\ session = Users
    /\ profiles = Users
    /\ chat_rooms = <<InactiveRoom, DesignSync, Boardroom>>
    /\ room_participants = {}
    /\ messages = {}
    /\ user_roles = {[user_id |-> "A", role |-> "admin"]}
    /\ verification_images = ImageRows("B", 1)
    /\ verification_audio = RecordRows("B", 1)
    /\ location_tracking = RecordRows("B", 1)
    /\ InitClients

NextDirectory ==
    \/ OpenDashboard("A")
    \/ \E ok \in BOOLEAN, failed \in {{}, {1}} : LoadRooms("A", ok, failed)
    \/ \E i \in 1..2 : JoinChat("A", i)
    \/ \E room \in {DesignSync, Boardroom}, ok \in BOOLEAN :
          JoinRoomLookup("A", room.room_code, <<>>, ok)
    \/ \E ok \in BOOLEAN : JoinRoomCount("A", ok)
    \/ \E room \in {DesignSync, Boardroom} : OpenChat("A", room.room_code)
    \/ ChatInitialize("A")
    \/ LeaveRoom("A")
    \/ OpenChat("B", DesignSync.room_code)
    \/ ChatInitializeAnswered("B")
    \/ \E e \in inflight : e.channel.user = "A" /\ Deliver(e)
    \/ \E i \in DOMAIN handlers["A"], ok \in BOOLEAN : OnParticipantChange("A", i, ok)
    \/ OpenAdmin("A")
    \/ CheckAdminSession("A")
    \/ \E ok \in BOOLEAN : CheckAdminRole("A", ok)
    \/ \E ok \in BOOLEAN : LoadUsers("A", ok)
    \/ HandleUserSelect("A", "B")
    \/ \E i \in 1..MaxCalls, ok \in BOOLEAN : LoadUserVerificationData("A", i, ok)
    \/ AdminBack("A")

SpecDirectory == InitDirectory /\ [][NextDirectory]_vars

\* ------------------------------------------------------------ claims C1-C3
\* the room a join-code resolves to, as the lookup of joinRoom finds it
RoomOfCode(code) == Single(ActiveRoomsByCode(toUpperCase(code)))

\* C1 (as claimed): a joinRoom call that passed the lookup and the password gate
\* navigates to the room's chat if and only if the room's active membership count M,
\* at the moment the count is fetched, is below the capacity C; with M >= C it shows
\* "Room full" and does not navigate.
C1_JoinsIffBelowCapacity ==
    [][\A u \in Users :
          (join[u].pc = "count" /\ join'[u].pc = "idle") =>
              LET room == join[u].room[1]
                  M == ActiveCount(room_participants, room.id)
                  entered == event'.nav = "/chat" /\ route'[u] = Page("chat", room.room_code)
              IN  /\ entered <=> M < room.max_participants
                  /\ M >= room.max_participants =>
                        event'.toast = "Room full" /\ route'[u] = route[u]]_vars

\* C2: on a password-protected room the lookup step of joinRoom shows "Password
\* required" and stops when the password is empty, passes the gate with any non-empty
\* password (matching the stored hash or not), and the call then enters the room
\* whenever the room is not full.
C2_AnyNonEmptyPasswordPasses ==
    LET u == event.user
        code == event.args[1]
        password == event.args[2]
        found == RoomOfCode(code)
    IN  /\ (event.op = "joinRoom:lookup" /\ event.resp = "ok"
                /\ found # NoRow /\ found[1].is_password_protected) =>
              IF password = <<>>
              THEN event.toast = "Password required" /\ join[u].pc = "idle"
              ELSE event.toast = "none" /\ join[u].pc = "count" /\ join[u].room = found
        /\ (event.op = "joinRoom:count" /\ found # NoRow /\ found[1].is_password_protected
                /\ ActiveCount(room_participants, found[1].id) < found[1].max_participants) =>
              /\ password # <<>>
              /\ event.nav = "/chat"
              /\ route[u] = Page("chat", found[1].room_code)

\* C2 witness: user entered a protected room with a password whose hash is not the
\* stored one
C2_Witness ==
    /\ event.op = "joinRoom:count" /\ event.nav = "/chat"
    /\ RoomOfCode(event.args[1]) # NoRow
    /\ RoomOfCode(event.args[1])[1].is_password_protected
    /\ hashPassword(event.args[2]) # RoomOfCode(event.args[1])[1].password_hash
    /\ route[event.user].page = "chat"

\* C3 (as claimed): the three checks run in the order lookup, password gate, capacity
\* and the first failing one decides: a code that matches no active room gives "Room
\* not found" whatever the password and occupancy; an empty password on a protected
\* room gives "Password required" even when the room is full, without a count; "Room
\* full" is shown only after both earlier checks passed.
C3_ChecksInOrder ==
    LET u == event.user
        code == event.args[1]
        password == event.args[2]
        found == RoomOfCode(code)
    IN  /\ (event.op = "joinRoom:lookup" /\ found = NoRow) =>
              event.toast = "Room not found" /\ join[u].pc = "idle"
        /\ (event.op = "joinRoom:lookup" /\ event.resp = "ok" /\ found # NoRow
                /\ found[1].is_password_protected /\ password = <<>>) =>
              event.toast = "Password required" /\ join[u].pc = "idle"
        /\ event.toast = "Room full" =>
              /\ event.op = "joinRoom:count"
              /\ found # NoRow
              /\ found[1].is_password_protected => password # <<>>

\* C3 (amended): a blank join-code is refused first, with "Room code is required" and
\* no request; for a non-blank code the three checks run in order as claimed.
C3_ChecksInOrderAfterBlankCheck ==
    LET u == event.user
        code == event.args[1]
        password == event.args[2]
        found == RoomOfCode(code)
    IN  /\ (event.op = "joinRoom:lookup" /\ ~Truthy(trim(code))) =>
              event.toast = "Room code is required" /\ event.resp = "none" /\ join[u].pc = "idle"
        /\ (event.op = "joinRoom:lookup" /\ Truthy(trim(code)) /\ found = NoRow) =>
              event.toast = "Room not found" /\ join[u].pc = "idle"
        /\ (event.op = "joinRoom:lookup" /\ event.resp = "ok" /\ found # NoRow
                /\ found[1].is_password_protected /\ password = <<>>) =>
              event.toast = "Password required" /\ join[u].pc = "idle"
        /\ event.toast = "Room full" =>
              /\ event.op = "joinRoom:count"
              /\ found # NoRow
              /\ found[1].is_password_protected => password # <<>>
        /\ \A v \in Users : join[v].pc = "count" =>
              /\ join[v].room # NoRow
              /\ join[v].room[1].is_active
              /\ join[v].room[1].is_password_protected => join[v].password # <<>>

\* C3 witness: "Password required" on a protected room that is full
C3_Witness ==
    /\ event.op = "joinRoom:lookup" /\ event.toast = "Password required"
    /\ RoomOfCode(event.args[1]) # NoRow
    /\ ActiveCount(room_participants, RoomOfCode(event.args[1])[1].id)
          >= RoomOfCode(event.args[1])[1].max_participants
    /\ join[event.user].pc = "idle"

\* ------------------------------------------------------------ claims C4-C5
ActiveRowsOf(roomId, u) ==
    {p \in room_participants : p.room_id = roomId /\ p.user_id = u /\ p.is_active}

\* C4: in the room of capacity 2 without password, with every request answered: a
\* join through the dialog succeeds while fewer than 2 members are active, the session
\* entry that follows makes the user an active member (count 1 after the first user,
\* 2 after the second), and a join attempted while 2 members are active shows "Room
\* full", does not navigate and leaves the memberships as they are.
C4_ThirdJoinIsRefused ==
    [][\A u \in Users :
          LET before == ActiveCount(room_participants, DesignSync.id)
              after == ActiveCount(room_participants', DesignSync.id)
          IN  /\ (join[u].pc = "count" /\ join'[u].pc = "idle" /\ event'.resp = "ok") =>
                    /\ join[u].room[1] = DesignSync
                    /\ after = before
                    /\ IF before >= 2
                       THEN event'.toast = "Room full" /\ route'[u] = route[u]
                       ELSE event'.toast = "none" /\ route'[u] = Page("chat", DesignSync.room_code)
              /\ (chat[u].pc = "joinRoom" /\ chat'[u].pc = "loadMessages" /\ event'.resp = "ok") =>
                    /\ ActiveRowsOf(DesignSync.id, u)' # {}
                    /\ after = IF ActiveRowsOf(DesignSync.id, u) = {} THEN before + 1 ELSE before]_vars

\* C4 witness: A and B are the two active members, both in their sessions, and C's
\* join has just been refused
C4_Witness ==
    /\ {p.user_id : p \in room_participants} = {"A", "B"}
    /\ ActiveCount(room_participants, DesignSync.id) = 2
    /\ chat["A"].pc = "active" /\ chat["B"].pc = "active"
    /\ event.op = "joinRoom:count" /\ event.user = "C" /\ event.toast = "Room full"
    /\ route["C"].page = "dashboard"

C6_NoBlankMessagePersisted ==
    /\ \A m \in messages : Truthy(trim(m.content))
    /\ (event.op = "sendMessage" /\ ~Truthy(trim(event.args[1]))) => event.resp = "none"

\* C6 witness: a whitespace-only text was sent from an open session
C6_Witness ==
    /\ event.op = "sendMessage" /\ event.args[1] = <<" ">>
    /\ chat[event.user].pc = "active"
    /\ chat[event.user].newMessage = <<" ">>

\* the rows of the room a session has open, as the database holds them
RoomRows(u) == {m \in messages : m.room_id = chat[u].room[1].id}
Entry(u, i) == chat[u].messages[i]
RowOf(u, i) == CHOOSE m \in RoomRows(u) : m.id = Entry(u, i).id

\* the transcript of u lists exactly the rows in rows, each once, in ascending
\* creation time
ListsInOrder(u, rows) ==
    /\ Len(chat[u].messages) = Cardinality(rows)
    /\ {Entry(u, i).id : i \in DOMAIN chat[u].messages} = {m.id : m \in rows}
    /\ \A i \in DOMAIN chat[u].messages :
          /\ Entry(u, i).content = RowOf(u, i).content
          /\ Entry(u, i).user_id = RowOf(u, i).user_id
          /\ Entry(u, i).created_at = RowOf(u, i).created_at
          /\ i > 1 => Entry(u, i - 1).created_at < Entry(u, i).created_at

\* C7 (as claimed): the transcript set by the history load of a session entry, every
\* request of it answered, is the room's messages M1..Mn in creation order, each with
\* its author's display name, "Anonymous" for the authors without profile.
C7_TranscriptIsWholeHistory ==
    (event.op = "initializeChat:setMessages" /\ event.resp = "ok") =>
        LET u == event.user
        IN  /\ ListsInOrder(u, RoomRows(u))
            /\ \A i \in DOMAIN chat[u].messages :
                  Entry(u, i).display_name =
                      IF Entry(u, i).user_id \in profiles THEN Entry(u, i).user_id ELSE Anonymous

\* C7 (amended): for a room of at most HistoryLimit messages the transcript set by
\* the history load is M1..Mn in creation order; an entry carries its author's display
\* name, or "Anonymous" when the author has no profile or the profile lookup failed.
C7_TranscriptIsHistoryUpToLimit ==
    event.op = "initializeChat:setMessages" =>
        LET u == event.user
        IN  /\ Cardinality(RoomRows(u)) <= HistoryLimit => ListsInOrder(u, RoomRows(u))
            /\ \A i \in DOMAIN chat[u].messages :
                  /\ Entry(u, i).display_name \in {Entry(u, i).user_id, Anonymous}
                  /\ Entry(u, i).user_id \notin profiles => Entry(u, i).display_name = Anonymous
                  /\ (event.resp = "ok" /\ Entry(u, i).user_id \in profiles) =>
                        Entry(u, i).display_name = Entry(u, i).user_id

\* C7 witness: a history of exactly HistoryLimit messages was loaded, with authors
\* with and without profile
C7_Witness ==
    /\ event.op = "initializeChat:setMessages" /\ event.resp = "ok"
    /\ Len(chat[event.user].messages) = HistoryLimit
    /\ Cardinality(RoomRows(event.user)) = HistoryLimit
    /\ \E i, j \in DOMAIN chat[event.user].messages :
          /\ Entry(event.user, i).display_name = Anonymous
          /\ Entry(event.user, j).display_name # Anonymous

\* C8 (as claimed): for a room of more than HistoryLimit messages the history load
\* sets the HistoryLimit most recent messages, in ascending creation time.
C8_LoadsMostRecent ==
    (event.op = "initializeChat:setMessages"
        /\ Cardinality(RoomRows(event.user)) > HistoryLimit) =>
        LET u == event.user
            recent == {m \in RoomRows(u) :
                          Cardinality({o \in RoomRows(u) : o.created_at > m.created_at})
                              < HistoryLimit}
        IN  ListsInOrder(u, recent)

InitSteps == {"joinRoom", "loadMessages", "loadParticipants"}
SessionState(c) ==
    IF c.pc = "active" THEN "Active"
    ELSE IF c.pc \in {"getSession", "getRoom", "enrich"} \cup InitSteps THEN "Initializing"
    ELSE "Closed"

\* C9 (as claimed): when the membership upsert, the history load or the roster load of
\* a session entry fails, an error is shown, the session is Closed and no channel is
\* subscribed; a session is Active only after all three succeeded.
C9_ActiveOnlyAfterLoadsSucceed ==
    [][\A u \in Users :
          (chat[u].pc \in InitSteps /\ chat'[u].pc # chat[u].pc /\ event'.resp = "error") =>
              /\ event'.toast # "none"
              /\ SessionState(chat'[u]) = "Closed"
              /\ channels' = channels]_vars

\* C10 (as claimed): once a session has ended every channel it subscribed is removed,
\* and no change event is left to act on its transcript or roster.
C10_EndedSessionHoldsNoChannel ==
    \A u \in Users :
        SessionState(chat[u]) = "Closed" =>
            /\ \A c \in channels : c.user # u
            /\ \A e \in inflight : e.channel.user # u

\* ---------------------------------------------------------- claims C11-C15
\* a session entry of u that ended left nothing behind
EntryLeftNothing(u) ==
    /\ room_participants' = room_participants
    /\ messages' = messages
    /\ channels' = channels
    /\ inflight' = inflight
    /\ chat'[u].messages = <<>>
    /\ chat'[u].participants = {}
    /\ SessionState(chat'[u]) = "Closed"

\* C11: a session entry of a user without auth session ends with the redirect to the
\* login page, and one whose join-code matches no active room ends with "Room Not
\* Found" and the redirect to the directory; in both cases no membership row is
\* written, no history or roster is loaded and no channel is subscribed, and nothing
\* is loaded before the room is resolved.
C11_FailedEntryHasNoSideEffects ==
    [][\A u \in Users :
          /\ (chat[u].pc = "getSession" /\ chat'[u].pc # "getSession" /\ u \notin session) =>
                /\ event'.nav = "/auth" /\ route'[u].page = "auth"
                /\ EntryLeftNothing(u)
          /\ (chat[u].pc = "getRoom" /\ chat'[u].pc # "getRoom"
                 /\ ~\E i \in DOMAIN chat_rooms :
                        chat_rooms[i].room_code = route[u].roomCode /\ chat_rooms[i].is_active) =>
                /\ event'.toast = "Room Not Found" /\ event'.nav = "/"
                /\ route'[u].page = "dashboard"
                /\ EntryLeftNothing(u)
          /\ chat'[u].pc \in {"getSession", "getRoom"} =>
                chat'[u].messages = <<>> /\ chat'[u].participants = {}]_vars

\* C11 witness: the backend answered the lookup of a deactivated room's code, the
\* user is back on the directory without membership
C11_Witness ==
    /\ event.op = "initializeChat:room" /\ event.resp = "ok"
    /\ event.toast = "Room Not Found"
    /\ route[event.user].page = "dashboard"
    /\ chat[event.user].pc = "unmounted"
    /\ \A p \in room_participants : p.room_id # InactiveRoom.id

\* a text that is empty or whitespace only
Blank(s) == \A k \in DOMAIN s : s[k] \in Whitespace

\* C12: createRoom with an empty or whitespace-only name shows the validation error,
\* makes no request and leaves the rows of chat_rooms as they are; no room has a blank
\* name.
C12_BlankNameCreatesNothing ==
    [][/\ (event'.op = "createRoom" /\ Blank(event'.args[1])) =>
              /\ chat_rooms' = chat_rooms
              /\ event'.toast = "Room name is required"
              /\ event'.resp = "none"
       /\ \A i \in DOMAIN chat_rooms' : ~Blank(chat_rooms'[i].name)]_vars

\* C12 witness: a whitespace-only name was refused, chat_rooms holds what it held
C12_Witness ==
    /\ event.op = "createRoom" /\ event.args[1] = <<" ">>
    /\ event.toast = "Room name is required"
    /\ chat_rooms = <<InactiveRoom>>

\* C13: the room createRoom has persisted is password-protected exactly when the
\* password field was non-empty; then its password_hash is the digest of the
\* password and differs from the password, otherwise it is null; no room stores a
\* password that was typed.
C13_StoresHashNeverPlaintext ==
    /\ (event.op = "createRoom" /\ event.resp = "ok") =>
          LET row == chat_rooms[Len(chat_rooms)]
              password == event.args[2]
          IN  /\ row.is_password_protected <=> password # <<>>
              /\ password # <<>> =>
                    /\ row.password_hash # password
                    /\ row.password_hash = <<"sha256">> \o password
              /\ password = <<>> => row.password_hash = <<>>
    /\ \A i \in DOMAIN chat_rooms :
          /\ chat_rooms[i].is_password_protected <=> chat_rooms[i].password_hash # <<>>
          /\ chat_rooms[i].is_password_protected =>
                chat_rooms[i].password_hash \notin PasswordInputs

\* C13 witness: a room was created with the password "a"
C13_Witness ==
    /\ event.op = "createRoom" /\ event.resp = "ok"
    /\ event.args[2] = <<"a">>
    /\ chat_rooms[Len(chat_rooms)].is_password_protected

\* the rows of chat_rooms whose code is code up to letter case
RoomsMatching(code) ==
    {i \in DOMAIN chat_rooms : toLowerCase(chat_rooms[i].room_code) = toLowerCase(code)}

\* C14: an answered lookup of a non-blank code that equals the join-code of an active
\* room up to letter case resolves to that room; a code that matches no room, or only
\* a deactivated one, gives "Room not found".
C14_LookupIgnoresCaseAndInactive ==
    (event.op = "joinRoom:lookup" /\ event.resp = "ok" /\ ~Blank(event.args[1])) =>
        LET u == event.user
            active == {i \in RoomsMatching(event.args[1]) : chat_rooms[i].is_active}
        IN  IF active = {}
            THEN event.toast = "Room not found" /\ join[u].pc = "idle"
            ELSE /\ event.toast # "Room not found"
                 /\ join[u].pc = "count" =>
                       \E i \in active : join[u].room = <<chat_rooms[i]>>
                 /\ join[u].pc = "idle" =>
                       \E i \in active : chat_rooms[i].is_password_protected

\* C14 witness: the lower-case spelling of an active room's code passed the lookup
C14_Witness ==
    /\ event.op = "joinRoom:lookup" /\ event.resp = "ok"
    /\ join[event.user].pc = "count"
    /\ event.args[1] # join[event.user].room[1].room_code
    /\ event.args[1] = toLowerCase(join[event.user].room[1].room_code)

\* C15 (as claimed): every room has a capacity of at least 2.
C15_CapacityAtLeastTwo ==
    \A i \in DOMAIN chat_rooms : chat_rooms[i].max_participants >= 2

\* ---------------------------------------------------------- claims C16-C17
\* the caller's role record is the privileged role
Privileged(u) ==
    /\ u \in session
    /\ \E r \in user_roles : r.user_id = u /\ r.role = "admin"
    /\ \A r \in user_roles : r.user_id = u => r.role = "admin"

\* C16: the admin flag is set, the user list loaded and the panel rendered only for a
\* signed-in caller whose role record is 'admin'; a caller without session is sent to
\* the login page, and one without role record, with another role or with a failed
\* role lookup is shown "Access Denied" and sent to the directory, its component gone.
C16_OnlyAdminSeesTheMonitor ==
    /\ \A u \in Users :
          (admin[u].isAdmin \/ admin[u].users # {} \/ admin[u].calls # <<>>
              \/ admin[u].pc \in {"loadUsers", "ready"} \/ Render(admin[u]) = "panel") =>
              Privileged(u)
    /\ (event.op = "checkAdminAccess:session" /\ event.user \notin session) =>
          /\ event.nav = "/auth" /\ route[event.user].page = "auth"
          /\ Render(admin[event.user]) = "unmounted"
    /\ (event.op = "checkAdminAccess:role"
            /\ (event.resp = "error" \/ ~Privileged(event.user))) =>
          /\ event.toast = "Access Denied" /\ event.nav = "/"
          /\ route[event.user].page = "dashboard"
          /\ Render(admin[event.user]) = "unmounted"

\* C16 witness: B, whose role is 'user', was denied while the panel is rendered for
\* the admin A
C16_Witness ==
    /\ event.op = "checkAdminAccess:role" /\ event.user = "B" /\ event.resp = "ok"
    /\ [user_id |-> "B", role |-> "user"] \in user_roles
    /\ event.toast = "Access Denied"
    /\ Render(admin["A"]) = "panel" /\ admin["A"].users # {}

\* shown lists the records of userId in table, each once, all of them when they are
\* at most limit, limit of them otherwise
ShowsRecordsOf(shown, table, userId, limit) ==
    LET own == {r \in table : r.user_id = userId}
    IN  /\ \A k \in DOMAIN shown : shown[k] \in own
        /\ \A k, l \in DOMAIN shown : k # l => shown[k] # shown[l]
        /\ Len(shown) = IF Cardinality(own) < limit THEN Cardinality(own) ELSE limit

\* C17: when a loadUserVerificationData call ends, each category whose request failed
\* is shown as the empty list and each category whose request was answered shows the
\* selected user's records of it (the most recent up to the category's limit), whatever
\* happened to the other two; no error is shown.
C17_CaptureLoadsAreIsolated ==
    event.op = "loadUserVerificationData:set" =>
        LET shown == admin[event.user].verificationData
            userId == event.args[1]
        IN  /\ event.toast = "none"
            /\ IF event.args[2]
               THEN ShowsRecordsOf(shown.images, verification_images, userId, ImageLimit)
               ELSE shown.images = <<>>
            /\ IF event.args[3]
               THEN ShowsRecordsOf(shown.audio, verification_audio, userId, AudioLimit)
               ELSE shown.audio = <<>>
            /\ IF event.args[4]
               THEN ShowsRecordsOf(shown.locations, location_tracking, userId, LocationLimit)
               ELSE shown.locations = <<>>

\* C17 witness: the image request of a user who has images failed; the 5 audio
\* records and the 3 locations of the user are shown
C17_Witness ==
    /\ event.op = "loadUserVerificationData:set"
    /\ ~event.args[2] /\ event.args[3] /\ event.args[4]
    /\ \E r \in verification_images : r.user_id = event.args[1]
    /\ admin[event.user].verificationData.images = <<>>
    /\ Len(admin[event.user].verificationData.audio) = 5
    /\ Len(admin[event.user].verificationData.locations) = 3

\* ---------------------------------------------------------- claims C18-C20
\* C18: sendMessage leaves the sender's transcript as it is; when the insert succeeds
\* exactly one row is added to messages, of type 'text', for the sender and the open
\* room, and otherwise none; the transcript of an open session grows only by the
\* handler of a new-message event, by the message of that event.
C18_SendIsNotOptimistic ==
    [][\A u \in Users :
          /\ (event'.op = "sendMessage" /\ event'.user = u) =>
                /\ chat'[u].messages = chat[u].messages
                /\ IF event'.resp = "ok"
                   THEN \E m \in messages' \ messages :
                           /\ messages' = messages \cup {m}
                           /\ m.message_type = "text"
                           /\ m.user_id = u
                           /\ m.room_id = chat[u].room[1].id
                   ELSE messages' = messages
          /\ (chat[u].pc = "active" /\ chat'[u].pc = "active"
                 /\ chat'[u].messages # chat[u].messages) =>
                /\ event'.op = "onMessageInsert" /\ event'.user = u
                /\ Len(chat'[u].messages) = Len(chat[u].messages) + 1
                /\ SubSeq(chat'[u].messages, 1, Len(chat[u].messages)) = chat[u].messages
                /\ chat'[u].messages[Len(chat'[u].messages)].id = event'.args[1]]_vars

\* C18 witness: the handler of the event of a message the user sent has put the
\* message into the user's transcript
C18_Witness ==
    /\ event.op = "onMessageInsert" /\ event.resp = "ok"
    /\ chat[event.user].pc = "active"
    /\ chat[event.user].messages # <<>>
    /\ LET last == chat[event.user].messages[Len(chat[event.user].messages)]
       IN  last.id = event.args[1] /\ last.user_id = event.user

\* C19 (as claimed): the messages of two new-message events an open session received
\* stand in its transcript in the order in which the events arrived.
C19_AppendsInArrivalOrder ==
    \A u \in Users :
        chat[u].pc = "active" =>
            \A i, j \in DOMAIN delivered[u] :
                i < j =>
                    \A k, l \in DOMAIN chat[u].messages :
                        (chat[u].messages[k].id = delivered[u][i]
                            /\ chat[u].messages[l].id = delivered[u][j]) => k < l

\* the users with an active membership row of the room
ActiveMembers(roomId) ==
    {w \in Users : \E p \in room_participants :
        p.room_id = roomId /\ p.user_id = w /\ p.is_active}

\* C20: every change of room_participants for a room sends an event to each
\* participants channel subscribed for the room; the handler of an event that reaches
\* the channel of an open session issues a full reload of the roster; and when the reload issued
\* after the latest change is answered, the roster of the session is the set of the
\* room's active members.
C20_RosterReloadsOnEveryChange ==
    [][\A u \in Users :
          /\ (event'.op = "initializeChat:joinRoom" /\ event'.user = u /\ event'.resp = "ok") =>
                \A c \in channels :
                    (c.kind = "participants" /\ c.room_id = chat[u].room[1].id) =>
                        \E e \in inflight' : e.channel = c
          /\ (event'.op = "deliver" /\ event'.user = u /\ event'.args[1] = "participants"
                 /\ event'.args[2] /\ chat[u].pc = "active") =>
                /\ Len(handlers'[u]) = Len(handlers[u]) + 1
                /\ handlers'[u][Len(handlers'[u])].data = ActiveMembers(chat[u].room[1].id)
          /\ (event'.op = "onParticipantChange" /\ event'.user = u /\ event'.resp = "ok"
                 /\ event'.args[1] /\ chat[u].pc = "active") =>
                chat'[u].participants = ActiveMembers(chat[u].room[1].id)']_vars

\* C20 witness: the reload issued after the latest change was answered and the roster
\* lists all three members, while a reload issued before that change still runs
C20_Witness ==
    /\ event.op = "onParticipantChange" /\ event.user = "A" /\ event.resp = "ok"
    /\ event.args[1]
    /\ chat["A"].pc = "active"
    /\ chat["A"].participants = Users
    /\ \E i \in DOMAIN handlers["A"] : ~handlers["A"][i].latest

\* ---------------------------------------------------------- claims C21-C25
\* C21: leaving the chat page changes no row of room_participants: the membership
\* row of the user in the room stays active and the room's count of active
\* memberships stays what it was.
C21_LeavingKeepsMembership ==
    [][\A u \in Users :
          (event'.op = "leaveRoom" /\ event'.user = u) =>
              /\ room_participants' = room_participants
              /\ chat[u].room # NoRow =>
                    LET roomId == chat[u].room[1].id
                        rowsOf(parts) == {p \in parts : p.room_id = roomId /\ p.user_id = u}
                    IN  /\ rowsOf(room_participants') = rowsOf(room_participants)
                        /\ ActiveCount(room_participants', roomId)
                              = ActiveCount(room_participants, roomId)]_vars

\* C21 witness: A has left the room and is on the directory, its membership row still
\* active among the three active memberships of the room
C21_Witness ==
    /\ event.op = "leaveRoom" /\ event.user = "A"
    /\ route["A"].page = "dashboard"
    /\ ActiveRowsOf(DesignSync.id, "A") # {}
    /\ ActiveCount(room_participants, DesignSync.id) = 3

\* the step of event e was a read of the room list, of a participant count, of the
\* message history, of the roster, of the user list or of capture data that failed
FailedRead(e) ==
    \/ e.op = "loadRooms" /\ (~e.args[1] \/ ~e.args[2])
    \/ /\ e.resp = "error"
       /\ e.op \in {"joinRoom:count", "initializeChat:loadMessages",
                    "initializeChat:loadParticipants", "onParticipantChange", "loadUsers",
                    "loadUserVerificationData:images", "loadUserVerificationData:audio"}
    \/ e.op = "loadUserVerificationData:set" /\ ~e.args[4]

\* the failure was reported: a notification was shown or an error was logged
Reported(e) == e.toast # "none" \/ ConsoleError(e)

\* the failed read of the step is not issued again: its caller has moved on
MovedOn(u) ==
    LET op == event'.op
    IN  /\ op = "loadRooms" => dashboard[u].pc = "loadRooms" /\ dashboard'[u].pc = "ready"
        /\ op = "joinRoom:count" => join[u].pc = "count" /\ join'[u].pc = "idle"
        /\ op = "initializeChat:loadMessages" =>
              chat[u].pc = "loadMessages" /\ chat'[u].pc = "loadParticipants"
        /\ op = "initializeChat:loadParticipants" =>
              chat[u].pc = "loadParticipants" /\ chat'[u].pc = "active"
        /\ op = "onParticipantChange" => Len(handlers'[u]) = Len(handlers[u]) - 1
        /\ op = "loadUsers" => admin[u].pc = "loadUsers" /\ admin'[u].pc = "ready"
        /\ op \in {"loadUserVerificationData:images", "loadUserVerificationData:audio"} =>
              /\ Len(admin'[u].calls) = Len(admin[u].calls)
              /\ \E i \in DOMAIN admin[u].calls :
                    /\ admin'[u].calls[i].pc # admin[u].calls[i].pc
                    /\ \A k \in DOMAIN admin[u].calls \ {i} :
                          admin'[u].calls[k] = admin[u].calls[k]
        /\ op = "loadUserVerificationData:set" =>
              Len(admin'[u].calls) = Len(admin[u].calls) - 1

\* C22 (as claimed): every failed read of the six kinds is reported.
C22_FailedReadIsReported ==
    FailedRead(event) => Reported(event)

\* C22 (amended): no failed read is retried: the load that issued it moves on as
\* after an answer. A failed room list, history or roster read is logged to the
\* console and shows no notification; a failed user list read shows the one
\* notification "Failed to load users"; a failed participant count and a failed
\* capture-data read are not reported at all: the count is taken as 0 (no "Room
\* full", the room card shows 0) and the category is shown empty.
C22_FailedReadIsNotRetried ==
    [][FailedRead(event') =>
          LET u == event'.user
              e == event'
          IN  /\ MovedOn(u)
              /\ e.op \in {"initializeChat:loadMessages", "initializeChat:loadParticipants",
                           "onParticipantChange"} =>
                    ConsoleError(e) /\ e.toast = "none"
              /\ e.op = "loadRooms" =>
                    /\ e.toast = "none"
                    /\ ConsoleError(e) <=> ~e.args[1]
                    /\ ~e.args[1] => dashboard'[u].rooms = dashboard[u].rooms
                    /\ e.args[1] => \E i \in DOMAIN dashboard'[u].rooms :
                                        dashboard'[u].rooms[i].participant_count = 0
              /\ e.op = "loadUsers" =>
                    ConsoleError(e) /\ e.toast = "Failed to load users"
              /\ e.op = "joinRoom:count" =>
                    ~Reported(e) /\ e.nav = "/chat" /\ route'[u].page = "chat"
              /\ e.op \in {"loadUserVerificationData:images", "loadUserVerificationData:audio"} =>
                    ~Reported(e)
              /\ e.op = "loadUserVerificationData:set" =>
                    ~Reported(e) /\ admin'[u].verificationData.locations = <<>>]_vars

\* C22 witness: the location request of a capture-data load failed after the other
\* two were answered; nothing is reported and the category is shown empty
C22_Witness ==
    /\ event.op = "loadUserVerificationData:set"
    /\ event.args[2] /\ event.args[3] /\ ~event.args[4]
    /\ event.toast = "none" /\ ~ConsoleError(event)
    /\ admin[event.user].verificationData.locations = <<>>
    /\ admin[event.user].verificationData.images # <<>>

\* C23 (as claimed): no room has more active membership rows than its capacity.
C23_ActiveNeverExceedsCapacity ==
    \A i \in DOMAIN chat_rooms :
        ActiveCount(room_participants, chat_rooms[i].id) <= chat_rooms[i].max_participants

\* C24 (as claimed), for users who never supply a password (the join dialog is only
\* ever submitted with the password field empty): no user is an active member of a
\* password-protected room, and no session loads the history of such a room or
\* subscribes to its messages.
C24_ProtectedRoomNeedsPassword ==
    \A u \in Users, i \in DOMAIN chat_rooms :
        chat_rooms[i].is_password_protected =>
            /\ ActiveRowsOf(chat_rooms[i].id, u) = {}
            /\ chat[u].room = <<chat_rooms[i]>> =>
                  chat[u].pc \notin {"loadMessages", "enrich", "loadParticipants", "active"}
            /\ \A c \in channels : c.user = u => c.room_id # chat_rooms[i].id

\* no change event waits for the page of u and no handler of it runs
Quiet(u) ==
    /\ handlers[u] = <<>>
    /\ \A e \in inflight : ~(e.channel.user = u /\ e.channel.mounted)

\* C25 (as claimed): with every request answered, once the change events sent to an
\* Active session have all been handled, every message persisted in the room is in
\* the session's transcript; no message is lost between the history load and the
\* subscription.
C25_NoMessageIsLost ==
    \A u \in Users :
        (chat[u].pc = "active" /\ Quiet(u)) =>
            \A m \in MessagesOfRoom(chat[u].room[1].id) :
                \E k \in DOMAIN chat[u].messages : chat[u].messages[k].id = m.id

\* ---------------------------------------------------------- claims C26-C30
\* C26 (as claimed): the entries of a transcript have distinct message ids.
C26_TranscriptHasNoDuplicate ==
    \A u \in Users :
        \A k, l \in DOMAIN chat[u].messages :
            k # l => chat[u].messages[k].id # chat[u].messages[l].id

\* C27 (as claimed): once the entry for the room of the route's code has completed,
\* every entry of the transcript is a message of that room, the roster is a set of
\* members of that room, no handler appends a message of another room and no reload
\* for another room sets the roster.
C27_OnlyDataOfTheOpenRoom ==
    [][\A u \in Users :
          (chat[u].pc = "active" /\ chat'[u].pc = "active"
              /\ chat[u].room[1].room_code = route[u].roomCode) =>
              LET roomId == chat[u].room[1].id
              IN  /\ (event'.op = "onMessageInsert" /\ event'.user = u
                         /\ chat'[u].messages # chat[u].messages) =>
                        \E m \in MessagesOfRoom(roomId) : m.id = event'.args[1]
                  /\ (event'.op = "onParticipantChange" /\ event'.user = u
                         /\ event'.resp = "ok") =>
                        event'.args[2] = roomId]_vars

\* C28 (as claimed): once all roster reloads of an Active session have completed,
\* with every request answered and no change event waiting, the roster is the
\* backend's set of active members of the room.
C28_LatestReloadWins ==
    \A u \in Users :
        (chat[u].pc = "active" /\ Quiet(u)
            /\ event.op = "onParticipantChange" /\ event.user = u /\ event.resp = "ok") =>
            chat[u].participants = ActiveMembers(chat[u].room[1].id)

\* C29 (as claimed): when no capture-data load of the panel is running, every image,
\* audio record and location displayed belongs to the selected user.
C29_CaptureDataOfSelectedUser ==
    \A u \in Users :
        (Render(admin[u]) = "panel" /\ admin[u].calls = <<>>) =>
            LET shown == admin[u].verificationData
            IN  /\ \A k \in DOMAIN shown.images : shown.images[k].user_id = admin[u].selectedUser
                /\ \A k \in DOMAIN shown.audio : shown.audio[k].user_id = admin[u].selectedUser
                /\ \A k \in DOMAIN shown.locations :
                      shown.locations[k].user_id = admin[u].selectedUser

\* C30: a step of sendMessage adds a row only when the session holds a room and a
\* current user, and the row carries the id of that room and of that user; when the
\* insert fails the typed text stays in the input, "Failed to send message" is shown,
\* and neither the table nor the transcript changes.
C30_SendPersistsOnlyResolved ==
    [][\A u \in Users :
        (event'.op = "sendMessage" /\ event'.user = u) =>
            /\ messages' # messages =>
                  /\ chat[u].room # NoRow
                  /\ chat[u].currentUser
                  /\ \E m \in messages' \ messages :
                        /\ messages' = messages \cup {m}
                        /\ m.room_id = chat[u].room[1].id
                        /\ m.user_id = u
            /\ event'.resp = "error" =>
                  /\ messages' = messages
                  /\ chat'[u].messages = chat[u].messages
                  /\ chat'[u].newMessage = event'.args[1]
                  /\ event'.toast = "Failed to send message"]_vars

\* a send failed after an earlier one of the same user was stored: the failed text is
\* still in the input
C30_Witness ==
    \E u \in Users :
        /\ event.op = "sendMessage" /\ event.user = u /\ event.resp = "error"
        /\ chat[u].newMessage = event.args[1] /\ chat[u].newMessage # <<>>
        /\ \E m \in messages : m.user_id = u /\ m.room_id = chat[u].room[1].id
====
